---- MODULE Spec2Model ----
(***************************************************************************)
(* The synapse homeserver entry point (synapse/app/homeserver.py): the     *)
(* one-shot startup performed by main() -> setup() -> run() -> start(),    *)
(* the composition of a listener's resource tree, and the binding of the   *)
(* configured listeners.  External collaborators (configuration parser,    *)
(* database, sockets, ACME authority) answer nondeterministically.         *)
(***************************************************************************)
EXTENDS Integers, Sequences, FiniteSets, TLC

\* ---------------------------------------------------------------- bounds

\* longest configured listener list
MaxListeners == 2
\* certificate validity on disk ranges over "none" (NoCert) and 0..MaxDays
MaxDays == 2
\* hs.config.acme_reprovision_threshold, a configuration value
ReprovisionThreshold == 1

\* ------------------------------------------------- synapse.api.urls names

FEDERATION_PREFIX == "/_matrix/federation"
SERVER_KEY_V2_PREFIX == "/_matrix/key/v2"
MEDIA_PREFIX == "/_matrix/media/r0"
LEGACY_MEDIA_PREFIX == "/_matrix/media/v1"
CONTENT_REPO_PREFIX == "/_matrix/content"
STATIC_PREFIX == "/_matrix/static"
WEB_CLIENT_PREFIX == "/_matrix/client"
METRICS_PREFIX == "/_synapse/metrics"
REPLICATION_PREFIX == "/_synapse/replication"

MediaPaths == {MEDIA_PREFIX, LEGACY_MEDIA_PREFIX, CONTENT_REPO_PREFIX}

ClientPaths ==
    { "/_matrix/client/api/v1", "/_matrix/client/r0", "/_matrix/client/unstable",
      "/_matrix/client/v2_alpha", "/_matrix/client/versions" }

\* ------------------------------------------------------ resource handlers

\* a handler object: its class, whether gz_wrap was applied, and (for the
\* federation transport) the servlet groups it serves
Handler(cls, gz, servlets) == [cls |-> cls, gz |-> gz, servlets |-> servlets]

gz_wrap(r) == [r EXCEPT !.gz = TRUE]

\* faulty variant: an entry already in d is kept
DictUpdate_keep_first(d, e) == d @@ e

\* dict.update: the entries of e replace those of d on the same path
DictUpdate(d, e) == e @@ d

\* a dict holding the same handler under every path of a set
DictOf(paths, h) == [p \in paths |-> h]

\* ------------------------------------------- _configure_named_resource

\* an if-block of _configure_named_resource: the entries it writes when its
\* condition holds, none otherwise
Block(cond, entries) == IF cond THEN entries ELSE << >>

\* faulty variant: the media entries are written whether or not the media
\* repository is enabled
MediaRegistered_always(cfg, name) == name \in {"media", "federation", "client"}

\* faulty variant: a media name with the repository disabled is tolerated
MediaConflict_never(cfg, name) == FALSE

\* faulty variant: only the media name itself registers the media paths
MediaRegistered_media_only(cfg, name) == name = "media" /\ cfg.enable_media_repo

\* the media block is entered for these names, and writes its entries when
\* the media repository is enabled
MediaRegistered(cfg, name) ==
    name \in {"media", "federation", "client"} /\ cfg.enable_media_repo

\* ... and otherwise raises ConfigError when the name is media itself
MediaConflict(cfg, name) ==
    /\ name \in {"media", "federation", "client"}
    /\ ~cfg.enable_media_repo
    /\ name = "media"

\* the resource map for one name, or the ConfigError it raises; the blocks
\* write into one dict in the order of the code, a later block replacing an
\* earlier one's entry for the same path
configure_named_resource(cfg, name, compress) ==
    LET plain(cls) == Handler(cls, FALSE, "all")
        wrapped(cls) == IF compress THEN gz_wrap(plain(cls)) ELSE plain(cls)
        client == Block(name = "client",
                     DictOf(ClientPaths, wrapped("ClientRestResource"))
                     @@ ("/.well-known/matrix/client" :> plain("WellKnownResource"))
                     @@ ("/_synapse/admin" :> plain("AdminRestResource")))
        saml2 == Block(name = "client" /\ cfg.saml2_enabled,
                     "/_matrix/saml2" :> plain("SAML2Resource"))
        consent == Block(name = "consent",
                     "/_matrix/consent" :> wrapped("ConsentResource"))
        federation == Block(name = "federation",
                     FEDERATION_PREFIX :> Handler("TransportLayerServer", FALSE, "all"))
        openid == Block(name = "openid",
                     FEDERATION_PREFIX :> Handler("TransportLayerServer", FALSE, "openid"))
        static == Block(name \in {"static", "client"},
                     STATIC_PREFIX :> plain("File"))
        media == Block(MediaRegistered(cfg, name),
                     (MEDIA_PREFIX :> plain("MediaRepositoryResource"))
                     @@ (LEGACY_MEDIA_PREFIX :> plain("MediaRepositoryResource"))
                     @@ (CONTENT_REPO_PREFIX :> plain("ContentRepoResource")))
        raised == MediaConflict(cfg, name)
        keys == Block(name \in {"keys", "federation"},
                     SERVER_KEY_V2_PREFIX :> plain("KeyApiV2Resource"))
        webclient == Block(name = "webclient" /\ cfg.web_client_location,
                     WEB_CLIENT_PREFIX :> plain("File"))
        metrics == Block(name = "metrics" /\ cfg.enable_metrics,
                     METRICS_PREFIX :> plain("MetricsResource"))
        replication == Block(name = "replication",
                     REPLICATION_PREFIX :> plain("ReplicationRestResource"))
    IN  IF raised
        THEN [err |-> "ConfigError", resources |-> << >>]
        ELSE [err |-> "none",
              resources |-> replication @@ metrics @@ webclient @@ keys @@ media
                            @@ static @@ openid @@ federation @@ consent @@ saml2
                            @@ client]

\* ------------------------------------------------------- _listener_http

\* faulty variant: the group is never seen to name federation, so openid is
\* never skipped
NamesHave_never(names, n) == FALSE

\* whether a name occurs in a group's list of names
NamesHave(names, n) == \E k \in 1..Len(names) : names[k] = n

\* the loop over one group's names, from position i, accumulating into acc
RECURSIVE NamesLoop(_, _, _, _)
NamesLoop(cfg, res, i, acc) ==
    IF acc.err # "none" \/ i > Len(res.names) THEN acc
    ELSE IF res.names[i] = "openid" /\ NamesHave(res.names, "federation")
         THEN NamesLoop(cfg, res, i + 1, acc)
         ELSE LET r == configure_named_resource(cfg, res.names[i], res.compress)
              IN  IF r.err # "none"
                  THEN [err |-> r.err, resources |-> << >>]
                  ELSE NamesLoop(cfg, res, i + 1,
                          [err |-> "none",
                           resources |-> DictUpdate(acc.resources, r.resources)])

\* the names of a group _configure_named_resource is called for, in order
NamesConfigured(res) ==
    SelectSeq(res.names,
              LAMBDA n : ~(n = "openid" /\ NamesHave(res.names, "federation")))

\* the loop over the listener's resource groups
RECURSIVE GroupsLoop(_, _, _, _)
GroupsLoop(cfg, groups, g, acc) ==
    IF acc.err # "none" \/ g > Len(groups) THEN acc
    ELSE GroupsLoop(cfg, groups, g + 1, NamesLoop(cfg, groups[g], 1, acc))

\* the operator-supplied additional resources, written after the named ones
AdditionalResources(listener_config) ==
    DictOf(listener_config.additional_resources,
           Handler("AdditionalResource", FALSE, "all"))

\* faulty variant: the static path is preferred to the web client's
RootResource_static_first(resources) ==
    IF STATIC_PREFIX \in DOMAIN resources THEN STATIC_PREFIX
    ELSE IF WEB_CLIENT_PREFIX \in DOMAIN resources THEN WEB_CLIENT_PREFIX
    ELSE "NoResource"

\* what '/' is redirected to
RootResource(resources) ==
    IF WEB_CLIENT_PREFIX \in DOMAIN resources THEN WEB_CLIENT_PREFIX
    ELSE IF STATIC_PREFIX \in DOMAIN resources THEN STATIC_PREFIX
    ELSE "NoResource"

\* the resource tree of an http listener, or the ConfigError composing it raises
listener_http(cfg, listener_config) ==
    LET named == GroupsLoop(cfg, listener_config.resources, 1,
                            [err |-> "none", resources |-> << >>])
        resources == DictUpdate(named.resources, AdditionalResources(listener_config))
    IN  IF named.err # "none"
        THEN [err |-> named.err, resources |-> << >>, root |-> "NoResource"]
        ELSE [err |-> "none", resources |-> resources,
              root |-> RootResource(resources)]

\* ------------------------------------------------- storage.engines

SUPPORTED_MODULE == {"sqlite3", "psycopg2", "cockroach"}

\* the engine class and the driver module create_engine picks for a database
\* name, or the RuntimeError for a name it does not support
create_engine(name, pypy) ==
    IF name \in SUPPORTED_MODULE
    THEN [err |-> "none",
          engine_class |-> CASE name = "sqlite3" -> "Sqlite3Engine"
                             [] name = "psycopg2" -> "PostgresEngine"
                             [] OTHER -> "CockroachEngine",
          module |-> IF name = "psycopg2" /\ pypy THEN "psycopg2cffi"
                     ELSE IF name = "cockroach" THEN "psycopg2"
                     ELSE name]
    ELSE [err |-> "RuntimeError", engine_class |-> "none", module |-> "none"]

DatabaseNames == SUPPORTED_MODULE \cup {"mysql"}

\* ---------------------------------------------------------- configuration

ResourceGroup(names, compress) == [names |-> names, compress |-> compress]

HttpListener(groups, tls) ==
    [type |-> "http", tls |-> tls, resources |-> groups, additional_resources |-> {}]

PlainListener(type) ==
    [type |-> type, tls |-> FALSE, resources |-> << >>, additional_resources |-> {}]

\* the listener shapes a configuration is drawn from
ListenerCatalogue ==
    { HttpListener(<<ResourceGroup(<<"media">>, FALSE)>>, FALSE),
      HttpListener(<<ResourceGroup(<<"federation", "media">>, FALSE)>>, FALSE),
      HttpListener(<<ResourceGroup(<<"federation">>, FALSE)>>, FALSE),
      HttpListener(<<ResourceGroup(<<"client">>, TRUE)>>, TRUE),
      PlainListener("manhole"),
      PlainListener("replication"),
      PlainListener("metrics"),
      PlainListener("bogus") }

ListenerLists == UNION { [1..n -> ListenerCatalogue] : n \in 0..MaxListeners }

\* is_disk_cert_valid: None (no certificate), or the days it remains valid
NoCert == [present |-> FALSE, days |-> 0]
CertStates == {NoCert} \cup { [present |-> TRUE, days |-> d] : d \in 0..MaxDays }

Configs ==
    [ listeners : ListenerLists,
      enable_media_repo : BOOLEAN,
      enable_metrics : BOOLEAN,
      acme_enabled : BOOLEAN,
      saml2_enabled : {FALSE},
      web_client_location : {FALSE},
      mau_enabled : BOOLEAN,
      report_stats : BOOLEAN ]

\* ------------------------------------------------------------------ state

VARIABLES
    config,             \* the configuration the options name
    pc,                 \* where main() / setup() / run() / start() stands
    begun,              \* the startup steps begun so far, in order
    fault,              \* the exception that ended startup, or "none"
    faultStep,          \* the step that raised it
    handler,            \* what caught it
    exited,             \* the process has terminated
    exit_code,          \* with this status
    committed,          \* db_conn.commit() was issued
    cert,               \* the certificate on disk
    acme_listening,     \* the ACME challenge service is listening
    listen_i,           \* start_listening: the listener being processed
    sockets,            \* listeners whose socket was opened, in order
    listening_services, \* hs._listening_services
    shutdown_triggers,  \* sockets registered for stopListening at shutdown
    sites,              \* the resource tree served on each http socket
    timers,             \* tasks registered with clock.looping_call
    delayed,            \* calls registered with clock.call_later
    invocations         \* task invocations, in order

\* the composition of one http listener's resource tree, taken on its own
VARIABLES
    compose_cfg,        \* the configuration flags _listener_http reads
    compose_listener,   \* the listener_config it is given
    compose_done,       \* _listener_http has run on it
    compose_tree        \* the resource tree it built, or the error it raised

composeVars == <<compose_cfg, compose_listener, compose_done, compose_tree>>

\* the daily certificate check of the running server
VARIABLES
    acme_checks,        \* runs of reprovision_acme so far
    acme_read,          \* what is_disk_cert_valid answered in the last run
    acme_result,        \* what do_acme returned in it, or "raised"
    acme_requests,      \* calls of acme.provision_certificate() by the job
    acme_issued,        \* ... of which in the last run
    tls_context         \* generation of the TLS context in use

acmeVars ==
    <<acme_checks, acme_read, acme_result, acme_requests, acme_issued, tls_context>>

\* the clock's timers of the running server
VARIABLES
    now,                \* milliseconds since run(hs) registered the tasks
    loop_due,           \* looping calls: when each fires next
    later_due,          \* pending one-shot calls, each with its time
    ran,                \* per task: invocations, of which by its looping
                        \* call, time of the first and of the last
    faulty,             \* the tasks whose action raises on every invocation
    faults              \* per task: exceptions its invocations raised

schedVars == <<now, loop_due, later_due, ran, faulty, faults>>

\* the usage report of the running server
VARIABLES
    clock_ms,           \* what clock.time() reads, in milliseconds
    start_time,         \* run(hs): start_time, in milliseconds
    stats,              \* run(hs): the stats dict all invocations write to
    reports,            \* the invocations of phone_stats_home under way,
                        \* in the order they began
    tally,              \* invocations begun, put_json calls made, and of
                        \* these the ones that failed
    last_submission     \* the latest put_json call: its payload, and the
                        \* clock reading and total_users of its invocation

reportVars == <<clock_ms, start_time, stats, reports, tally, last_submission>>

\* the monthly-active-user gauges of the running server
VARIABLES
    mau_cfg,            \* limit_usage_by_mau, mau_stats_only, max_mau_value
    gauges,             \* current_mau_gauge, registered_reserved_users_mau_gauge,
                        \* max_mau_gauge (-1: never set)
    mau_refreshes,      \* runs of generate_monthly_active_users so far
    mau_last            \* the last run: its datastore queries and their answers

mauVars == <<mau_cfg, gauges, mau_refreshes, mau_last>>

\* the state outside the startup pipeline
aside == <<composeVars, acmeVars, schedVars, reportVars, mauVars>>

procVars == <<pc, begun, fault, faultStep, handler, exited, exit_code>>
netVars == <<listen_i, sockets, listening_services, shutdown_triggers, sites>>
jobVars == <<timers, delayed, invocations>>
vars == <<config, procVars, committed, cert, acme_listening, netVars, jobVars, aside>>

\* no tree was composed yet
EmptyTree == [err |-> "none", resources |-> << >>, root |-> "NoResource"]

\* the composition harness is not in use
ComposeIdle ==
    /\ compose_cfg = [enable_media_repo |-> FALSE, enable_metrics |-> FALSE,
                      saml2_enabled |-> FALSE, web_client_location |-> FALSE]
    /\ compose_listener = HttpListener(<< >>, FALSE)
    /\ compose_done = FALSE
    /\ compose_tree = EmptyTree

\* the functions run(hs) and start() hand to the clock
AllTasks ==
    {"generate_user_daily_visits", "reap_monthly_active_users",
     "generate_monthly_active_users", "phone_stats_home", "reprovision_acme",
     "performance_stats_init"}

NeverRan == [count |-> 0, loops |-> 0, first |-> -1, last |-> -1]

\* no timer is followed
SchedIdle ==
    /\ now = 0
    /\ loop_due = << >>
    /\ later_due = {}
    /\ ran = [t \in AllTasks |-> NeverRan]
    /\ faulty = {}
    /\ faults = [t \in AllTasks |-> 0]

\* stats = {}: no key is set (a key not set reads -1 here)
EmptyStats == [timestamp |-> -1, uptime_seconds |-> -1, total_users |-> -1]

NoSubmission == [made |-> FALSE, payload |-> EmptyStats, clock |-> 0, users |-> -1]

\* no usage report was started
ReportIdle ==
    /\ clock_ms = 0
    /\ start_time = 0
    /\ stats = EmptyStats
    /\ reports = << >>
    /\ tally = [begun |-> 0, submitted |-> 0, warned |-> 0]
    /\ last_submission = NoSubmission

\* no gauge was set
NoGauges == [current |-> -1, reserved |-> -1, max |-> -1]

NoRefresh == [queries |-> 0, current |-> 0, reserved |-> 0, outcome |-> "none"]

\* generate_monthly_active_users has not run
MauIdle ==
    /\ mau_cfg = [limit_usage_by_mau |-> FALSE, mau_stats_only |-> FALSE,
                  max_mau_value |-> 0]
    /\ gauges = NoGauges
    /\ mau_refreshes = 0
    /\ mau_last = NoRefresh

\* the daily certificate check has not run
AcmeIdle ==
    /\ acme_checks = 0
    /\ acme_read = NoCert
    /\ acme_result = "none"
    /\ acme_requests = 0
    /\ acme_issued = 0
    /\ tls_context = 0

Init ==
    /\ config \in Configs
    /\ cert \in (IF config.acme_enabled THEN CertStates ELSE {NoCert})
    /\ pc = "check_requirements"
    /\ begun = << >>
    /\ fault = "none"
    /\ faultStep = "none"
    /\ handler = "none"
    /\ exited = FALSE
    /\ exit_code = 0
    /\ committed = FALSE
    /\ acme_listening = FALSE
    /\ listen_i = 0
    /\ sockets = << >>
    /\ listening_services = << >>
    /\ shutdown_triggers = << >>
    /\ sites = << >>
    /\ timers = {}
    /\ delayed = {}
    /\ invocations = << >>
    /\ ComposeIdle
    /\ AcmeIdle
    /\ SchedIdle
    /\ ReportIdle
    /\ MauIdle

\* --------------------------------------------------- leaving the process

\* sys.exit(code) reached from step, after handler h caught exception kind
Exit(kind, step, h, code) ==
    /\ fault' = kind
    /\ faultStep' = step
    /\ handler' = h
    /\ exited' = TRUE
    /\ exit_code' = code
    /\ pc' = "exited"

\* an exception no except clause of the program catches leaves main(): the
\* interpreter prints the traceback and the process ends with status 1
Uncaught(kind, step) == Exit(kind, step, "interpreter", 1)

\* _base.quit_with_error: print the message, end the process
quit_with_error(kind, step) == Exit(kind, step, "quit_with_error", 1)

\* faulty variant of the except clause of start(): the traceback is printed
\* but sys.exit(1) is missing, so the reactor goes on running
StartExcept_no_exit(kind, step) ==
    /\ fault' = kind
    /\ faultStep' = step
    /\ handler' = "start"
    /\ pc' = "running"
    /\ UNCHANGED <<exited, exit_code>>

\* the except Exception clause of start(): print the traceback, sys.exit(1)
StartExcept(kind, step) == Exit(kind, step, "start", 1)

Begin(step) == begun' = Append(begun, step)

\* used by the faulty variants below: the exception is only logged and
\* execution goes on at next
Logged(kind, step, next) ==
    /\ fault' = kind
    /\ faultStep' = step
    /\ handler' = "logged"
    /\ pc' = next
    /\ UNCHANGED <<exited, exit_code>>

Go(next) ==
    /\ pc' = next
    /\ UNCHANGED <<fault, faultStep, handler, exited, exit_code>>

\* ----------------------------------------------------------------- main()

\* check_requirements(): a missing or conflicting dependency raises
\* DependencyException, which nothing in main() catches
CheckRequirements ==
    /\ pc = "check_requirements"
    /\ Begin("check_requirements")
    /\ \E deps_needed \in BOOLEAN :
          IF deps_needed THEN Uncaught("DependencyException", "check_requirements")
                         ELSE Go("load_config")
    /\ UNCHANGED <<aside, config, committed, cert, acme_listening, netVars, jobVars>>

\* ---------------------------------------------------------------- setup()

\* faulty variant: the ConfigError exit reports success
LoadConfigError_exit0 == Exit("ConfigError", "load_config", "setup", 0)

\* except ConfigError: the message goes to stderr, sys.exit(1)
LoadConfigError == Exit("ConfigError", "load_config", "setup", 1)

\* no configuration was returned: sys.exit(0)
ConfigGenerated == Exit("none", "load_config", "none", 0)

\* load_or_generate_config: a configuration, a ConfigError, or nothing (the
\* options asked only for the configuration files to be generated)
LoadConfig ==
    /\ pc = "load_config"
    /\ Begin("load_config")
    /\ \E outcome \in {"config", "ConfigError", "generated"} :
          CASE outcome = "ConfigError" -> LoadConfigError
            [] outcome = "generated" -> ConfigGenerated
            [] OTHER -> Go("setup_logging")
    /\ UNCHANGED <<aside, config, committed, cert, acme_listening, netVars, jobVars>>

SetupLogging ==
    /\ pc = "setup_logging"
    /\ Begin("setup_logging")
    /\ \E ok \in BOOLEAN :
          IF ok THEN Go("create_engine")
                ELSE Uncaught("Exception", "setup_logging")
    /\ UNCHANGED <<aside, config, committed, cert, acme_listening, netVars, jobVars>>

\* create_engine(config.database_config): an unsupported name raises
\* RuntimeError, a driver that cannot be imported raises ImportError
CreateEngine ==
    /\ pc = "create_engine"
    /\ Begin("create_engine")
    /\ \E name \in DatabaseNames, pypy \in BOOLEAN, importable \in BOOLEAN :
          LET e == create_engine(name, pypy)
          IN  IF e.err # "none" THEN Uncaught(e.err, "create_engine")
              ELSE IF ~importable THEN Uncaught("ImportError", "create_engine")
              ELSE Go("construct_hs")
    /\ UNCHANGED <<aside, config, committed, cert, acme_listening, netVars, jobVars>>

\* hs = SynapseHomeServer(...)
ConstructHomeServer ==
    /\ pc = "construct_hs"
    /\ Begin("construct_hs")
    /\ \E ok \in BOOLEAN :
          IF ok THEN Go("get_db_conn")
                ELSE Uncaught("Exception", "construct_hs")
    /\ UNCHANGED <<aside, config, committed, cert, acme_listening, netVars, jobVars>>

\* faulty variant: a failed connection attempt is retried
GetDbConn_retry ==
    /\ pc = "get_db_conn"
    /\ Begin("get_db_conn")
    /\ \E ok \in BOOLEAN :
          IF ok THEN Go("prepare_database") ELSE Go("get_db_conn")
    /\ UNCHANGED <<aside, config, committed, cert, acme_listening, netVars, jobVars>>

\* with hs.get_db_conn(run_new_connection=False) as db_conn
GetDbConn ==
    /\ pc = "get_db_conn"
    /\ Begin("get_db_conn")
    /\ \E ok \in BOOLEAN :
          IF ok THEN Go("prepare_database")
                ELSE Uncaught("Exception", "get_db_conn")
    /\ UNCHANGED <<aside, config, committed, cert, acme_listening, netVars, jobVars>>

\* faulty variant: the message is written but sys.exit(1) is missing
UpgradeFailed_logged ==
    Logged("UpgradeDatabaseException", "prepare_database", "on_new_connection")

\* except UpgradeDatabaseException: the remediation message, sys.exit(1)
UpgradeFailed == Exit("UpgradeDatabaseException", "prepare_database", "setup", 1)

\* faulty variant: the transaction is committed right after the schema was
\* prepared, before the new-connection hook and the consistency checks
PrepareDatabase_then_commit ==
    /\ pc = "prepare_database"
    /\ Begin("prepare_database")
    /\ \E outcome \in {"ok", "UpgradeDatabaseException", "Exception"} :
          CASE outcome = "UpgradeDatabaseException" -> UpgradeFailed
            [] outcome = "Exception" ->
                  Uncaught("Exception", "prepare_database")
            [] OTHER -> Go("commit")
    /\ UNCHANGED <<aside, config, committed, cert, acme_listening, netVars, jobVars>>

\* prepare_database(db_conn, ...): UpgradeDatabaseException is the one
\* exception setup() catches here; it prints the remediation and exits 1
PrepareDatabase ==
    /\ pc = "prepare_database"
    /\ Begin("prepare_database")
    /\ \E outcome \in {"ok", "UpgradeDatabaseException", "Exception"} :
          CASE outcome = "UpgradeDatabaseException" -> UpgradeFailed
            [] outcome = "Exception" ->
                  Uncaught("Exception", "prepare_database")
            [] OTHER -> Go("on_new_connection")
    /\ UNCHANGED <<aside, config, committed, cert, acme_listening, netVars, jobVars>>

\* database_engine.on_new_connection(db_conn)
OnNewConnection ==
    /\ pc = "on_new_connection"
    /\ Begin("on_new_connection")
    /\ \E ok \in BOOLEAN :
          IF ok THEN Go("run_startup_checks")
                ELSE Uncaught("Exception", "on_new_connection")
    /\ UNCHANGED <<aside, config, committed, cert, acme_listening, netVars, jobVars>>

\* faulty variant: foreign users and a wrong database setup are only warned
\* about
run_startup_checks_warn(all_users_native, database_ok) ==
    IF ~all_users_native
    THEN Logged("UsersNotNative", "run_startup_checks", "commit")
    ELSE IF ~database_ok
    THEN Logged("IncorrectDatabaseSetup", "run_startup_checks", "commit")
    ELSE Go("commit")

\* run_startup_checks: what it does for the answers of are_all_users_on_domain
\* and of the engine's check_database
run_startup_checks(all_users_native, database_ok) ==
    IF ~all_users_native
    THEN quit_with_error("UsersNotNative", "run_startup_checks")
    ELSE IF ~database_ok
    THEN quit_with_error("IncorrectDatabaseSetup", "run_startup_checks")
    ELSE Go("commit")

RunStartupChecks ==
    /\ pc = "run_startup_checks"
    /\ Begin("run_startup_checks")
    /\ \E all_users_native \in BOOLEAN, database_ok \in BOOLEAN :
          run_startup_checks(all_users_native, database_ok)
    /\ UNCHANGED <<aside, config, committed, cert, acme_listening, netVars, jobVars>>

\* db_conn.commit()
Commit ==
    /\ pc = "commit"
    /\ Begin("commit")
    /\ \E ok \in BOOLEAN :
          IF ok THEN committed' = TRUE /\ Go("hs_setup")
                ELSE UNCHANGED committed /\ Uncaught("Exception", "commit")
    /\ UNCHANGED <<aside, config, cert, acme_listening, netVars, jobVars>>

\* hs.setup(); hs.setup_master(); start is registered to run before the
\* reactor starts up; setup() returns hs
HsSetup ==
    /\ pc = "hs_setup"
    /\ Begin("hs_setup")
    /\ \E ok \in BOOLEAN :
          IF ok THEN Go("run")
                ELSE Uncaught("Exception", "hs_setup")
    /\ UNCHANGED <<aside, config, committed, cert, acme_listening, netVars, jobVars>>

\* ------------------------------------------------------------------ run()

\* faulty variant: run(hs) registers no looping call
run_looping_calls_none(cfg) == {}

\* the looping calls run(hs) registers with the clock
run_looping_calls(cfg) ==
    {"generate_user_daily_visits", "reap_monthly_active_users"}
    \cup (IF cfg.mau_enabled THEN {"generate_monthly_active_users"} ELSE {})
    \cup (IF cfg.report_stats THEN {"phone_stats_home"} ELSE {})

\* faulty variant: run(hs) registers no one-shot call
run_call_laters_none(cfg) == {}

\* the one-shot calls run(hs) registers with the clock
run_call_laters(cfg) ==
    IF cfg.report_stats THEN {"performance_stats_init", "phone_stats_home"} ELSE {}

\* the tasks run(hs) invokes itself, right when it registers them
run_invoked_now == <<"reap_monthly_active_users", "generate_monthly_active_users">>

\* run(hs), up to the call that starts the reactor
Run ==
    /\ pc = "run"
    /\ Begin("run")
    /\ timers' = timers \cup run_looping_calls(config)
    /\ delayed' = delayed \cup run_call_laters(config)
    /\ invocations' = invocations \o run_invoked_now
    /\ Go("start_reactor")
    /\ UNCHANGED <<aside, config, committed, cert, acme_listening, netVars>>

\* _base.start_reactor(...): the reactor starts, and fires start() first
StartReactor ==
    /\ pc = "start_reactor"
    /\ Begin("start_reactor")
    /\ \E ok \in BOOLEAN :
          IF ok THEN Go("start")
                ELSE Uncaught("Exception", "start_reactor")
    /\ UNCHANGED <<aside, config, committed, cert, acme_listening, netVars, jobVars>>

\* ---------------------------------------------------------------- start()

\* faulty variant: a certificate valid for exactly the threshold is renewed too
do_acme_at_threshold(cert_days_remaining) ==
    \/ ~cert_days_remaining.present
    \/ cert_days_remaining.days <= ReprovisionThreshold

\* do_acme's decision: provision when no certificate exists or when it is
\* valid for fewer days than the reprovision threshold
do_acme(cert_days_remaining) ==
    \/ ~cert_days_remaining.present
    \/ cert_days_remaining.days < ReprovisionThreshold

\* start(), first part: with ACME enabled, the challenge service starts
\* listening; otherwise start() goes straight to _base.start
AcmeStartListening ==
    /\ pc = "start"
    /\ IF config.acme_enabled
       THEN /\ Begin("acme_start_listening")
            /\ \E ok \in BOOLEAN :
                  IF ok THEN acme_listening' = TRUE /\ Go("do_acme")
                        ELSE /\ UNCHANGED acme_listening
                             /\ StartExcept("Exception", "acme_start_listening")
       ELSE /\ UNCHANGED <<begun, acme_listening>>
            /\ Go("base_start")
    /\ UNCHANGED <<aside, config, committed, cert, netVars, jobVars>>

\* faulty variant: a failed provisioning is fatal only when some listener
\* is configured with tls
ProvisionFailed_tls_only ==
    IF \E i \in 1..Len(config.listeners) : config.listeners[i].tls
    THEN StartExcept("ProvisionError", "do_acme")
    ELSE Logged("ProvisionError", "do_acme", "base_start")

\* acme.provision_certificate() failed: the exception leaves do_acme and
\* reaches the except clause of start()
ProvisionFailed == StartExcept("ProvisionError", "do_acme")

\* yield do_acme(), then the daily reprovision_acme looping call
DoAcme ==
    /\ pc = "do_acme"
    /\ Begin("do_acme")
    /\ IF do_acme(cert)
       THEN \E issued \in BOOLEAN, days \in 0..MaxDays :
               IF issued
               THEN /\ cert' = [present |-> TRUE, days |-> days]
                    /\ timers' = timers \cup {"reprovision_acme"}
                    /\ Go("base_start")
               ELSE /\ UNCHANGED <<cert, timers>>
                    /\ ProvisionFailed
       ELSE /\ UNCHANGED cert
            /\ timers' = timers \cup {"reprovision_acme"}
            /\ Go("base_start")
    /\ UNCHANGED <<aside, config, committed, acme_listening, netVars, delayed, invocations>>

\* _base.start(hs, config.listeners): hands the configured listeners to
\* hs.start_listening
BaseStart ==
    /\ pc = "base_start"
    /\ Begin("start_listening")
    /\ \E ok \in BOOLEAN :
          IF ok THEN listen_i' = 1 /\ Go("start_listening")
                ELSE UNCHANGED listen_i /\ StartExcept("Exception", "start_listening")
    /\ UNCHANGED <<aside, config, committed, cert, acme_listening, sockets,
                   listening_services, shutdown_triggers, sites, jobVars>>

\* ------------------------------------------------------- start_listening

\* the socket of listener i is open
Opened(i) == sockets' = Append(sockets, i)

\* faulty variant: the ports _listener_http returns are dropped
listening_services_extend_none(i) == UNCHANGED listening_services

\* self._listening_services.extend(self._listener_http(config, listener))
listening_services_extend(i) ==
    listening_services' = Append(listening_services, i)

\* faulty variant: a metrics listener is bound whatever enable_metrics says
metrics_disabled_never(cfg) == FALSE

\* if not self.get_config().enable_metrics
metrics_disabled(cfg) == ~cfg.enable_metrics

\* faulty variant: a failed bind is logged and the loop goes on
BindFailed_continue ==
    /\ listen_i' = listen_i + 1
    /\ UNCHANGED <<sockets, listening_services, shutdown_triggers, sites>>
    /\ Logged("BindError", "start_listening", "start_listening")

\* listen_tcp / listen_ssl / listen_metrics raised: nothing in
\* start_listening catches it, the loop is left and the except clause of
\* start() is reached
BindFailed ==
    /\ UNCHANGED netVars
    /\ StartExcept("BindError", "start_listening")

\* one pass of the loop of start_listening, for the listener at listen_i;
\* an exception of listen_tcp / listen_ssl / _listener_http leaves the loop
\* and reaches the except clause of start()
StartListening ==
    /\ pc = "start_listening"
    /\ listen_i <= Len(config.listeners)
    /\ LET listener == config.listeners[listen_i]
           next == /\ listen_i' = listen_i + 1
                   /\ Go("start_listening")
       IN  CASE listener.type = "http" ->
                  LET tree == listener_http(config, listener)
                  IN  IF tree.err # "none"
                      THEN /\ UNCHANGED netVars
                           /\ StartExcept(tree.err, "start_listening")
                      ELSE \E bound \in BOOLEAN :
                              IF bound
                              THEN /\ Opened(listen_i)
                                   /\ listening_services_extend(listen_i)
                                   /\ sites' = Append(sites,
                                         [listener |-> listen_i,
                                          tls |-> listener.tls,
                                          root |-> tree.root,
                                          resources |-> tree.resources])
                                   /\ UNCHANGED shutdown_triggers
                                   /\ next
                              ELSE BindFailed
             [] listener.type = "manhole" ->
                  \E bound \in BOOLEAN :
                     IF bound
                     THEN /\ Opened(listen_i)
                          /\ UNCHANGED <<listening_services, shutdown_triggers, sites>>
                          /\ next
                     ELSE BindFailed
             [] listener.type = "replication" ->
                  \E bound \in BOOLEAN :
                     IF bound
                     THEN /\ Opened(listen_i)
                          /\ shutdown_triggers' = Append(shutdown_triggers, listen_i)
                          /\ UNCHANGED <<listening_services, sites>>
                          /\ next
                     ELSE BindFailed
             [] listener.type = "metrics" ->
                  IF metrics_disabled(config)
                  THEN /\ UNCHANGED <<sockets, listening_services,
                                      shutdown_triggers, sites>>
                       /\ next
                  ELSE \E bound \in BOOLEAN :
                          IF bound
                          THEN /\ Opened(listen_i)
                               /\ UNCHANGED <<listening_services,
                                              shutdown_triggers, sites>>
                               /\ next
                          ELSE BindFailed
             [] OTHER ->
                  /\ UNCHANGED <<sockets, listening_services,
                                 shutdown_triggers, sites>>
                  /\ next
    /\ UNCHANGED <<aside, config, begun, committed, cert, acme_listening, jobVars>>

\* the loop is exhausted: start_listening and _base.start return
StartListeningReturn ==
    /\ pc = "start_listening"
    /\ listen_i > Len(config.listeners)
    /\ Go("pusherpool")
    /\ UNCHANGED <<aside, config, begun, committed, cert, acme_listening, netVars, jobVars>>

\* hs.get_pusherpool().start()
PusherPoolStart ==
    /\ pc = "pusherpool"
    /\ Begin("pusherpool")
    /\ \E ok \in BOOLEAN :
          IF ok THEN Go("background_updates")
                ELSE StartExcept("Exception", "pusherpool")
    /\ UNCHANGED <<aside, config, committed, cert, acme_listening, netVars, jobVars>>

\* hs.get_datastore().start_doing_background_updates(); start() returns and
\* the reactor runs
StartBackgroundUpdates ==
    /\ pc = "background_updates"
    /\ Begin("background_updates")
    /\ \E ok \in BOOLEAN :
          IF ok THEN Go("running")
                ELSE StartExcept("Exception", "background_updates")
    /\ UNCHANGED <<aside, config, committed, cert, acme_listening, netVars, jobVars>>

\* ---------------------------------------------------------- specification

Next ==
    \/ CheckRequirements
    \/ LoadConfig
    \/ SetupLogging
    \/ CreateEngine
    \/ ConstructHomeServer
    \/ GetDbConn
    \/ PrepareDatabase
    \/ OnNewConnection
    \/ RunStartupChecks
    \/ Commit
    \/ HsSetup
    \/ Run
    \/ StartReactor
    \/ AcmeStartListening
    \/ DoAcme
    \/ BaseStart
    \/ StartListening
    \/ StartListeningReturn
    \/ PusherPoolStart
    \/ StartBackgroundUpdates

Spec == Init /\ [][Next]_vars

\* -------------------------------------------------------------- properties

InBegun(step) == \E k \in 1..Len(begun) : begun[k] = step

LastBegun == IF begun = << >> THEN "none" ELSE begun[Len(begun)]

IsPrefix(a, b) == Len(a) <= Len(b) /\ SubSeq(b, 1, Len(a)) = a

SocketOf(i) == \E k \in 1..Len(sockets) : sockets[k] = i

SiteOf(i) == \E k \in 1..Len(sites) : sites[k].listener = i

\* nothing of the server has been started
NothingStarted ==
    /\ sockets = << >>
    /\ listening_services = << >>
    /\ sites = << >>
    /\ ~acme_listening
    /\ timers = {}
    /\ delayed = {}
    /\ invocations = << >>

\* the process ended with a non-zero status
Fatal == exited /\ exit_code # 0 /\ pc = "exited"

\* C1: when prepare_database fails with the upgrade error, the process has
\* exited with a non-zero status and no listener socket was ever opened:
\* start_listening is never entered.
C1_UpgradeErrorOpensNoListener ==
    fault = "UpgradeDatabaseException" =>
        /\ Fatal
        /\ sockets = << >>
        /\ listen_i = 0
        /\ ~InBegun("start_listening")

C1_Witness ==
    /\ fault = "UpgradeDatabaseException"
    /\ exited
    /\ exit_code = 1
    /\ Len(config.listeners) > 0

\* the steps of startup in the order the code runs them
CodeOrder ==
    <<"check_requirements", "load_config", "setup_logging", "create_engine",
      "construct_hs", "get_db_conn", "prepare_database", "on_new_connection",
      "run_startup_checks", "commit", "hs_setup", "run", "start_reactor">>
    \o (IF config.acme_enabled THEN <<"acme_start_listening", "do_acme">>
                               ELSE << >>)
    \o <<"start_listening", "pusherpool", "background_updates">>

\* the pipeline state of the design a step of the code belongs to
PipelineState(step) ==
    CASE step = "load_config" -> "ParseConfig"
      [] step = "setup_logging" -> "SetupLogging"
      [] step = "get_db_conn" -> "OpenDatabase"
      [] step = "prepare_database" -> "PrepareSchema"
      [] step = "run_startup_checks" -> "ConsistencyCheck"
      [] step = "hs_setup" -> "ConstructServer"
      [] step = "do_acme" -> "ProvisionCertificate"
      [] step = "start_listening" -> "BindListeners"
      [] step = "run" -> "StartBackgroundJobs"
      [] OTHER -> "none"

\* the pipeline states entered so far, in order
PipelineTrace ==
    SelectSeq([k \in 1..Len(begun) |-> PipelineState(begun[k])],
              LAMBDA st : st # "none")

\* the order the design gives
PipelineOrder ==
    <<"ParseConfig", "SetupLogging", "OpenDatabase", "PrepareSchema",
      "ConsistencyCheck", "ConstructServer">>
    \o (IF config.acme_enabled THEN <<"ProvisionCertificate">> ELSE << >>)
    \o <<"BindListeners", "StartBackgroundJobs">>

\* C2 as stated: the pipeline states are entered in the order ParseConfig,
\* SetupLogging, OpenDatabase, PrepareSchema, ConsistencyCheck,
\* ConstructServer, optional ProvisionCertificate, BindListeners,
\* StartBackgroundJobs, each at most once.
C2_PipelineOrderAsStated == IsPrefix(PipelineTrace, PipelineOrder)

\* C2 amended: startup is linear and fail-fast in the order of the code, in
\* which run() registers the periodic tasks before the reactor starts, hence
\* before certificate provisioning and the binding of the listeners: the
\* steps begun are a prefix of that order (each at most once), Running is
\* reached only after all of them, and after a failure no further step
\* begins.
C2_LinearInCodeOrder ==
    /\ IsPrefix(begun, CodeOrder)
    /\ pc = "running" => begun = CodeOrder
    /\ fault # "none" => exited /\ pc = "exited" /\ LastBegun = faultStep
    /\ exited => pc = "exited"

C2_Witness ==
    /\ pc = "running"
    /\ config.acme_enabled
    /\ begun = CodeOrder

\* the tasks run() registers whatever the configuration
AlwaysRegistered == {"generate_user_daily_visits", "reap_monthly_active_users"}

\* start_listening has returned without an exception
ListenersBound ==
    \/ pc \in {"pusherpool", "background_updates", "running"}
    \/ InBegun("pusherpool")

RecurringTaskSeen == timers # {} \/ delayed # {} \/ invocations # << >>

\* C3 as stated: no recurring task is registered or invoked before the
\* listeners are bound, and none ever is when binding fails.
C3_NoTaskBeforeBindAsStated ==
    /\ RecurringTaskSeen => ListenersBound
    /\ fault = "BindError" => ~RecurringTaskSeen

\* C3 amended: the recurring tasks are registered by run(), after setup() has
\* returned (configuration parsed, schema prepared, consistency checked,
\* transaction committed, server set up) and before the reactor starts, so
\* before the listeners are bound; MAU reap and MAU refresh are invoked once
\* right then.  When binding is entered, and when it fails, they are already
\* registered.
C3_TasksRegisteredByRunBeforeBind ==
    /\ RecurringTaskSeen =>
          /\ InBegun("run")
          /\ InBegun("hs_setup")
          /\ committed
    /\ InBegun("run") =>
          /\ AlwaysRegistered \subseteq timers
          /\ ("phone_stats_home" \in timers) = config.report_stats
          /\ ("generate_monthly_active_users" \in timers) = config.mau_enabled
          /\ invocations = run_invoked_now
    /\ ~InBegun("run") => ~RecurringTaskSeen
    /\ InBegun("start_listening") => InBegun("run")
    /\ fault = "BindError" => Fatal /\ AlwaysRegistered \subseteq timers

C3_Witness ==
    /\ fault = "BindError"
    /\ exited
    /\ AlwaysRegistered \subseteq timers
    /\ invocations = run_invoked_now

\* C4: a bind failure at listener listen_i ends start_listening at once: no
\* socket of a later listener is open, the pusher pool and the background
\* updates were not started, and the process exited with a non-zero status.
C4_BindFailureIsFatal ==
    fault = "BindError" =>
        /\ Fatal
        /\ handler = "start"
        /\ listen_i \in 1..Len(config.listeners)
        /\ \A k \in 1..Len(sockets) : sockets[k] < listen_i
        /\ ~InBegun("pusherpool")
        /\ ~InBegun("background_updates")

C4_Witness ==
    /\ fault = "BindError"
    /\ listen_i = 1
    /\ Len(config.listeners) > 1
    /\ exit_code = 1

NoTlsListener == \A i \in 1..Len(config.listeners) : ~config.listeners[i].tls

\* C5 as stated: when provisioning fails and no listener has tls set, the
\* process does not terminate.
C5_ProvisionFailureToleratedAsStated ==
    (fault = "ProvisionError" /\ NoTlsListener) => ~exited

\* C5 amended: startup provisioning runs only if certificate automation is
\* enabled, and its failure is fatal whether or not a listener has tls set:
\* the process exits with a non-zero status and start_listening is not
\* entered.
C5_ProvisionFailureAlwaysFatal ==
    /\ (InBegun("acme_start_listening") \/ InBegun("do_acme")) => config.acme_enabled
    /\ fault = "ProvisionError" =>
          /\ Fatal
          /\ handler = "start"
          /\ ~InBegun("start_listening")
          /\ sockets = << >>

C5_Witness ==
    /\ fault = "ProvisionError"
    /\ NoTlsListener
    /\ Len(config.listeners) > 0
    /\ exited
    /\ exit_code = 1

\* the steps start() runs inside its try block
StartSteps ==
    {"acme_start_listening", "do_acme", "start_listening", "pusherpool",
     "background_updates"}

C7_ParseConfigOutcomes ==
    /\ LastBegun = "load_config" =>
          \/ exited /\ exit_code = 1 /\ fault = "ConfigError"
          \/ exited /\ exit_code = 0 /\ fault = "none"
          \/ ~exited /\ pc = "setup_logging" /\ fault = "none"
    /\ (fault = "ConfigError" /\ faultStep = "load_config") =>
          /\ exited /\ exit_code = 1
          /\ LastBegun = "load_config"
          /\ NothingStarted /\ ~committed
    /\ (exited /\ exit_code = 0) =>
          /\ fault = "none"
          /\ LastBegun = "load_config"
          /\ NothingStarted /\ ~committed

C7_Witness ==
    /\ exited
    /\ exit_code = 0
    /\ LastBegun = "load_config"

\* C8: a user foreign to the server's domain, or IncorrectDatabaseSetup from
\* the engine's check, ends the process with a non-zero status; nothing is
\* committed, no socket is opened and no job is started.
C8_ConsistencyFailureIsFatal ==
    fault \in {"UsersNotNative", "IncorrectDatabaseSetup"} =>
        /\ Fatal
        /\ LastBegun = "run_startup_checks"
        /\ ~committed
        /\ NothingStarted

C8_Witness ==
    /\ fault = "IncorrectDatabaseSetup"
    /\ exited
    /\ exit_code = 1

\* the names of all the resource groups of a listener
NamesOf(listener) ==
    UNION { { listener.resources[g].names[k] :
                 k \in 1..Len(listener.resources[g].names) } :
            g \in 1..Len(listener.resources) }

\* an http listener that names media and neither federation nor client
MediaOnly(listener) ==
    /\ listener.type = "http"
    /\ "media" \in NamesOf(listener)
    /\ "federation" \notin NamesOf(listener)
    /\ "client" \notin NamesOf(listener)

\* an http listener of one group whose name set is the given one
SingleGroup(listener, names) ==
    /\ listener.type = "http"
    /\ Len(listener.resources) = 1
    /\ NamesOf(listener) = names

\* start_listening has dealt with listener i: it went past it, or it ended
\* at it with an exception
Processed(i) == listen_i > i \/ (listen_i = i /\ pc = "exited")

\* C9: with the media repository disabled, an http listener naming media and
\* neither federation nor client fails to compose with ConfigError: no tree
\* is produced and no socket is bound for it, and startup ends there.
C9_MediaAloneConflicts ==
    \A i \in 1..Len(config.listeners) :
        (MediaOnly(config.listeners[i]) /\ ~config.enable_media_repo) =>
            /\ listener_http(config, config.listeners[i]).err = "ConfigError"
            /\ ~SocketOf(i)
            /\ ~SiteOf(i)
            /\ listen_i <= i
            /\ Processed(i) => fault = "ConfigError" /\ Fatal

C9_Witness ==
    /\ ~config.enable_media_repo
    /\ Len(config.listeners) = 2
    /\ listen_i = 2
    /\ MediaOnly(config.listeners[2])
    /\ fault = "ConfigError"
    /\ Len(sockets) = 1

\* C10 as stated: with the media repository disabled, a single group naming
\* federation and media composes without ConfigError into a tree that holds
\* the federation and server-key paths and no media path.
C10_FederationMediaComposesAsStated ==
    \A i \in 1..Len(config.listeners) :
        ( /\ SingleGroup(config.listeners[i], {"federation", "media"})
          /\ ~config.enable_media_repo
          /\ Processed(i) ) =>
            /\ fault # "ConfigError"
            /\ \A k \in 1..Len(sites) :
                  sites[k].listener = i =>
                      /\ FEDERATION_PREFIX \in DOMAIN sites[k].resources
                      /\ SERVER_KEY_V2_PREFIX \in DOMAIN sites[k].resources
                      /\ MediaPaths \cap DOMAIN sites[k].resources = {}

\* C10 amended: with the media repository disabled, a single group naming
\* federation and media fails with ConfigError, in either order of the two
\* names, because media is named; the group naming federation alone composes
\* into a tree that holds the federation and server-key paths and no media
\* path.
C10_FederationMediaConflicts ==
    /\ \A i \in 1..Len(config.listeners) :
          ( /\ SingleGroup(config.listeners[i], {"federation", "media"})
            /\ ~config.enable_media_repo
            /\ Processed(i) ) =>
              /\ fault = "ConfigError"
              /\ Fatal
              /\ ~SocketOf(i)
              /\ ~SiteOf(i)
    /\ ~config.enable_media_repo =>
          \A names \in {<<"federation", "media">>, <<"media", "federation">>} :
              listener_http(config,
                  HttpListener(<<ResourceGroup(names, FALSE)>>, FALSE)).err
              = "ConfigError"
    /\ \A k \in 1..Len(sites) :
          ( /\ SingleGroup(config.listeners[sites[k].listener], {"federation"})
            /\ ~config.enable_media_repo ) =>
              /\ FEDERATION_PREFIX \in DOMAIN sites[k].resources
              /\ SERVER_KEY_V2_PREFIX \in DOMAIN sites[k].resources
              /\ MediaPaths \cap DOMAIN sites[k].resources = {}

C10_Witness ==
    /\ ~config.enable_media_repo
    /\ Len(config.listeners) = 2
    /\ listen_i = 2
    /\ SingleGroup(config.listeners[1], {"federation"})
    /\ SiteOf(1)
    /\ SingleGroup(config.listeners[2], {"federation", "media"})
    /\ fault = "ConfigError"
    /\ exited

\* ------------------------------------- composing one listener's tree

\* the startup pipeline has not begun, under a configuration without listeners
StartupIdle ==
    /\ config = [listeners |-> << >>, enable_media_repo |-> FALSE,
                 enable_metrics |-> FALSE, acme_enabled |-> FALSE,
                 saml2_enabled |-> FALSE, web_client_location |-> FALSE,
                 mau_enabled |-> FALSE, report_stats |-> FALSE]
    /\ cert = NoCert
    /\ pc = "check_requirements"
    /\ begun = << >>
    /\ fault = "none"
    /\ faultStep = "none"
    /\ handler = "none"
    /\ exited = FALSE
    /\ exit_code = 0
    /\ committed = FALSE
    /\ acme_listening = FALSE
    /\ listen_i = 0
    /\ sockets = << >>
    /\ listening_services = << >>
    /\ shutdown_triggers = << >>
    /\ sites = << >>
    /\ timers = {}
    /\ delayed = {}
    /\ invocations = << >>

startupVars ==
    <<config, procVars, committed, cert, acme_listening, netVars, jobVars>>

\* the resource names _configure_named_resource knows
ResourceNames ==
    {"client", "consent", "federation", "openid", "static", "media", "keys",
     "webclient", "metrics", "replication"}

\* the most names a listener lists, over all its groups
MaxNames == 2

NameLists == UNION { [1..n -> ResourceNames] : n \in 1..MaxNames }

\* the k-th smallest member of a set of numbers
KthOf(S, k) == CHOOSE x \in S : Cardinality({y \in S : y < x}) = k - 1

\* a list of names cut into consecutive groups after the positions in cuts
GroupsOf(names, cuts, compress) ==
    [k \in 1..(Cardinality(cuts) + 1) |->
        ResourceGroup(SubSeq(names, KthOf(cuts \cup {0}, k) + 1,
                                    KthOf(cuts \cup {Len(names)}, k)),
                      compress)]

\* the http listeners composed: every list of names, cut into groups in
\* every way, with or without an operator-supplied resource on the static path
ComposeListeners ==
    UNION { { [type |-> "http", tls |-> FALSE,
               resources |-> GroupsOf(names, cuts, FALSE),
               additional_resources |-> extra] :
                cuts \in SUBSET (1..(Len(names) - 1)),
                extra \in {{}, {STATIC_PREFIX}} } :
            names \in NameLists }

ComposeConfigs ==
    [enable_media_repo : BOOLEAN, enable_metrics : {TRUE},
     saml2_enabled : {FALSE}, web_client_location : BOOLEAN]

InitCompose ==
    /\ StartupIdle
    /\ AcmeIdle
    /\ SchedIdle
    /\ ReportIdle
    /\ MauIdle
    /\ compose_cfg \in ComposeConfigs
    /\ compose_listener \in ComposeListeners
    /\ compose_done = FALSE
    /\ compose_tree = EmptyTree

\* _listener_http builds the tree of the listener
Compose ==
    /\ ~compose_done
    /\ compose_done' = TRUE
    /\ compose_tree' = listener_http(compose_cfg, compose_listener)
    /\ UNCHANGED <<startupVars, acmeVars, schedVars, reportVars, mauVars, compose_cfg,
                   compose_listener>>

NextCompose == Compose

SpecCompose == InitCompose /\ [][NextCompose]_vars

\* the names of a group, as a set
NameSet(res) == { res.names[k] : k \in 1..Len(res.names) }

\* the names the composed listener lists in any of its groups
ComposedNames ==
    UNION { NameSet(compose_listener.resources[g]) :
                g \in 1..Len(compose_listener.resources) }

ComposedPaths == DOMAIN compose_tree.resources

\* C11: the media paths are registered only when the media repository is
\* enabled.  A listener naming federation or client but never media composes
\* without error with the repository disabled, and its tree has none of the
\* three media paths; with the repository enabled, naming any of media,
\* federation or client registers all three.
C11_MediaPathsOnlyWhenEnabled ==
    compose_done =>
        /\ ( /\ ~compose_cfg.enable_media_repo
             /\ ComposedNames \cap {"federation", "client"} # {}
             /\ "media" \notin ComposedNames )
           => ( /\ compose_tree.err = "none"
                /\ ComposedPaths \cap MediaPaths = {} )
        /\ ~compose_cfg.enable_media_repo => ComposedPaths \cap MediaPaths = {}
        /\ ( /\ compose_cfg.enable_media_repo
             /\ ComposedNames \cap {"media", "federation", "client"} # {} )
           => ( /\ compose_tree.err = "none"
                /\ MediaPaths \subseteq ComposedPaths )

C11_Witness ==
    /\ compose_done
    /\ ~compose_cfg.enable_media_repo
    /\ ComposedNames = {"federation", "client"}
    /\ compose_tree.err = "none"
    /\ FEDERATION_PREFIX \in ComposedPaths

\* how often a name occurs in a list
Occurrences(names, n) == Cardinality({ k \in 1..Len(names) : names[k] = n })

\* C12: for a single group naming both federation and openid (each once, in
\* either order), _configure_named_resource is called for federation once and
\* never for openid, and the federation path carries the full federation
\* handler, not the openid-restricted one.
C12_OpenidFoldedIntoFederation ==
    ( /\ compose_done
      /\ Len(compose_listener.resources) = 1
      /\ Occurrences(compose_listener.resources[1].names, "federation") = 1
      /\ Occurrences(compose_listener.resources[1].names, "openid") >= 1
      /\ compose_tree.err = "none" )
    => ( /\ Occurrences(NamesConfigured(compose_listener.resources[1]),
                        "federation") = 1
         /\ Occurrences(NamesConfigured(compose_listener.resources[1]),
                        "openid") = 0
         /\ compose_tree.resources[FEDERATION_PREFIX] =
                Handler("TransportLayerServer", FALSE, "all") )

C12_Witness ==
    /\ compose_done
    /\ Len(compose_listener.resources) = 1
    /\ compose_listener.resources[1].names = <<"federation", "openid">>
    /\ compose_tree.err = "none"
    /\ compose_tree.resources[FEDERATION_PREFIX].servlets = "all"

\* C13: '/' redirects to the web client path when that path is registered,
\* else to the static path when that is registered, else it is not found.
\* The web client path is registered by the name webclient only with a web
\* client location configured; without one the name registers nothing, raises
\* nothing, and the redirect is decided as if it were not listed.
C13_RootRedirect ==
    compose_done =>
        LET web == "webclient" \in ComposedNames /\ compose_cfg.web_client_location
            static == \/ ComposedNames \cap {"static", "client"} # {}
                      \/ STATIC_PREFIX \in compose_listener.additional_resources
        IN  /\ compose_tree.err = "none" =>
                /\ (WEB_CLIENT_PREFIX \in ComposedPaths) <=> web
                /\ (STATIC_PREFIX \in ComposedPaths) <=> static
                /\ compose_tree.root = IF web THEN WEB_CLIENT_PREFIX
                                       ELSE IF static THEN STATIC_PREFIX
                                       ELSE "NoResource"
            /\ ( /\ "webclient" \in ComposedNames
                 /\ ~compose_cfg.web_client_location
                 /\ ("media" \notin ComposedNames \/ compose_cfg.enable_media_repo) )
               => compose_tree.err = "none"

C13_Witness ==
    /\ compose_done
    /\ ComposedNames = {"webclient", "static"}
    /\ ~compose_cfg.web_client_location
    /\ compose_tree.err = "none"
    /\ compose_tree.root = STATIC_PREFIX

\* ------------------------------------------------ the running server

\* startup has completed under config (a configuration without listeners)
Started ==
    /\ pc = "running"
    /\ begun = CodeOrder
    /\ fault = "none"
    /\ faultStep = "none"
    /\ handler = "none"
    /\ exited = FALSE
    /\ exit_code = 0
    /\ committed = TRUE
    /\ acme_listening = config.acme_enabled
    /\ listen_i = 1
    /\ sockets = << >>
    /\ listening_services = << >>
    /\ shutdown_triggers = << >>
    /\ sites = << >>
    /\ timers = run_looping_calls(config)
                 \cup (IF config.acme_enabled THEN {"reprovision_acme"} ELSE {})
    /\ delayed = run_call_laters(config)
    /\ invocations = run_invoked_now

\* the configurations of the running server: no listener, any job switches
RunningConfigs == { c \in Configs : c.listeners = << >> /\ ~c.enable_media_repo
                                     /\ ~c.enable_metrics }

\* --------------------------------------------- reprovision_acme, daily

\* the most runs of reprovision_acme followed
MaxChecks == 3

\* faulty variant: the certificate is reloaded whenever a renewal was needed,
\* issued or not
reprovision_refresh_when_needed(outcome) ==
    tls_context' = IF outcome # "false" THEN tls_context + 1 ELSE tls_context

\* reprovision_acme after do_acme: _base.refresh_certificate(hs) when do_acme
\* returned true; an exception of do_acme leaves before it
reprovision_refresh(outcome) ==
    tls_context' = IF outcome = "true" THEN tls_context + 1 ELSE tls_context

\* one run of reprovision_acme
ReprovisionAcme ==
    /\ pc = "running"
    /\ "reprovision_acme" \in timers
    /\ acme_checks < MaxChecks
    /\ acme_checks' = acme_checks + 1
    /\ acme_read' = cert
    /\ IF do_acme(cert)
       THEN /\ acme_requests' = acme_requests + 1
            /\ acme_issued' = 1
            /\ \E issued \in BOOLEAN, days \in 0..MaxDays :
                  IF issued
                  THEN /\ cert' = [present |-> TRUE, days |-> days]
                       /\ acme_result' = "true"
                       /\ reprovision_refresh("true")
                  ELSE /\ cert' = cert
                       /\ acme_result' = "raised"
                       /\ reprovision_refresh("raised")
       ELSE /\ acme_issued' = 0
            /\ acme_result' = "false"
            /\ reprovision_refresh("false")
            /\ UNCHANGED <<cert, acme_requests>>
    /\ UNCHANGED <<config, procVars, committed, acme_listening, netVars, jobVars,
                   composeVars, schedVars, reportVars, mauVars>>

\* a day passes: the certificate on disk is valid for one day less
CertAges ==
    /\ pc = "running"
    /\ cert.present
    /\ cert.days > 0
    /\ cert' = [cert EXCEPT !.days = @ - 1]
    /\ UNCHANGED <<config, procVars, committed, acme_listening, netVars, jobVars,
                   aside>>

\* the certificate file is removed from disk
CertRemoved ==
    /\ pc = "running"
    /\ cert.present
    /\ cert' = NoCert
    /\ UNCHANGED <<config, procVars, committed, acme_listening, netVars, jobVars,
                   aside>>

InitAcme ==
    /\ config \in { c \in RunningConfigs : c.acme_enabled }
    /\ cert \in { c \in CertStates : c.present }
    /\ Started
    /\ ComposeIdle
    /\ AcmeIdle
    /\ SchedIdle
    /\ ReportIdle
    /\ MauIdle

NextAcme == ReprovisionAcme \/ CertAges \/ CertRemoved

SpecAcme == InitAcme /\ [][NextAcme]_vars

\* the certificate read by the last run calls for a renewal, in the words of
\* the design: none on disk, or valid for strictly fewer days than the threshold
RenewalDue(c) == ~c.present \/ c.days < ReprovisionThreshold

\* C14: a run of the reprovision check issues exactly one certificate request
\* and returns true exactly when the days remaining are absent or strictly
\* below the threshold; with the days at or above the threshold it returns
\* false and issues no request.  When the request is not granted the check
\* raises instead of returning.  A check that directly follows a renewal
\* leaving the days at or above the threshold returns false.
C14_ReprovisionDecision ==
    /\ [](acme_result # "none" =>
            /\ RenewalDue(acme_read) <=> acme_issued = 1
            /\ ~RenewalDue(acme_read) <=> acme_issued = 0
            /\ RenewalDue(acme_read) <=> acme_result \in {"true", "raised"}
            /\ ~RenewalDue(acme_read) <=> acme_result = "false")
    /\ [][( /\ acme_checks' = acme_checks + 1
            /\ acme_result = "true"
            /\ cert.present
            /\ cert.days >= ReprovisionThreshold )
          => ( acme_result' = "false" /\ acme_requests' = acme_requests )]_vars

C14_Witness ==
    /\ acme_checks = 2
    /\ acme_requests = 1
    /\ acme_result = "false"
    /\ acme_read = [present |-> TRUE, days |-> ReprovisionThreshold]
    /\ tls_context = 1

\* C15: a step of the periodic reprovision job replaces the TLS context only
\* when the renewal was needed and the certificate was issued; every other
\* step leaves it as it was.
C15_ContextReplacedOnlyAfterRenewal ==
    [][ /\ tls_context' # tls_context =>
            ( /\ RenewalDue(cert)
              /\ acme_issued' = 1
              /\ acme_result' = "true"
              /\ acme_requests' = acme_requests + 1 )
        /\ ( acme_checks' = acme_checks + 1 /\ acme_result' = "true" )
            => tls_context' # tls_context ]_vars

C15_Witness ==
    /\ acme_checks = 2
    /\ acme_result = "raised"
    /\ acme_requests = 2
    /\ tls_context = 1

\* ------------------------------------------------- the clock's timers

\* the span of time followed, in hours
HorizonHours == 49

Horizon == HorizonHours * 60 * 60 * 1000

\* the msec argument of each clock.looping_call
looping_interval(t) ==
    CASE t = "generate_user_daily_visits" -> 5 * 60 * 1000
      [] t = "reap_monthly_active_users" -> 1000 * 60 * 60
      [] t = "generate_monthly_active_users" -> 5 * 60 * 1000
      [] t = "phone_stats_home" -> 3 * 60 * 60 * 1000
      [] t = "reprovision_acme" -> 24 * 60 * 60 * 1000

\* faulty variant: the argument of clock.call_later is taken for milliseconds
call_later_delay_in_msec(t) ==
    CASE t = "performance_stats_init" -> 0
      [] t = "phone_stats_home" -> 5 * 60

\* the argument of each clock.call_later, which is in seconds
call_later_delay(t) ==
    CASE t = "performance_stats_init" -> 0 * 1000
      [] t = "phone_stats_home" -> 5 * 60 * 1000

\* a task was invoked at time at, by its looping call or otherwise
Invoked(r, at, by_loop) ==
    [count |-> r.count + 1,
     loops |-> r.loops + (IF by_loop THEN 1 ELSE 0),
     first |-> IF r.first = -1 THEN at ELSE r.first,
     last |-> at]

\* the exceptions of a task's invocations, one per invocation when its
\* action always raises
FaultsAfter(t) == [faults EXCEPT ![t] = @ + (IF t \in faulty THEN 1 ELSE 0)]

\* faulty variant: a looping call whose invocation raised is cancelled
looping_call_cancelled_by_fault(t, faulted) ==
    loop_due' = IF faulted
                THEN [x \in (DOMAIN loop_due) \ {t} |-> loop_due[x]]
                ELSE [loop_due EXCEPT ![t] = now + looping_interval(t)]

\* Clock.looping_call after an invocation: the next one is due one interval
\* later, whether or not this one raised
looping_call_reschedule(t, faulted) ==
    loop_due' = [loop_due EXCEPT ![t] = now + looping_interval(t)]

\* a looping call comes due and invokes its task
LoopFire ==
    /\ pc = "running"
    /\ \E t \in DOMAIN loop_due :
          /\ loop_due[t] = now
          /\ ran' = [ran EXCEPT ![t] = Invoked(@, now, TRUE)]
          /\ faults' = FaultsAfter(t)
          /\ looping_call_reschedule(t, t \in faulty)
    /\ UNCHANGED <<startupVars, composeVars, acmeVars, reportVars, mauVars,
                   now, later_due,
                   faulty>>

\* a one-shot call comes due and invokes its task
LaterFire ==
    /\ pc = "running"
    /\ \E e \in later_due :
          /\ e.at = now
          /\ ran' = [ran EXCEPT ![e.task] = Invoked(@, now, FALSE)]
          /\ faults' = FaultsAfter(e.task)
          /\ later_due' = later_due \ {e}
    /\ UNCHANGED <<startupVars, composeVars, acmeVars, reportVars, mauVars,
                   now, loop_due,
                   faulty>>

\* the times at which some timer is due
DueTimes == { loop_due[t] : t \in DOMAIN loop_due } \cup { e.at : e \in later_due }

\* nothing is due now: time passes until the next timer is
AdvanceClock ==
    /\ pc = "running"
    /\ DueTimes # {}
    /\ now \notin DueTimes
    /\ now' = CHOOSE d \in DueTimes : \A x \in DueTimes : d <= x
    /\ now' <= Horizon
    /\ UNCHANGED <<startupVars, composeVars, acmeVars, reportVars, mauVars,
                   loop_due,
                   later_due, ran, faulty, faults>>

\* the tasks that recur
RecurringTasks == AllTasks \ {"performance_stats_init"}

\* the running server right after startup: the looping calls and one-shot
\* calls of run(hs) and start() are registered, and run(hs) has invoked the
\* two tasks it calls itself
InitSched ==
    /\ config \in RunningConfigs
    /\ cert = IF config.acme_enabled THEN [present |-> TRUE, days |-> MaxDays]
                                     ELSE NoCert
    /\ Started
    /\ ComposeIdle
    /\ AcmeIdle
    /\ ReportIdle
    /\ MauIdle
    /\ now = 0
    /\ loop_due = [t \in timers |-> looping_interval(t)]
    /\ later_due = { [task |-> t, at |-> call_later_delay(t)] : t \in delayed }
    /\ ran = [t \in AllTasks |->
                IF \E k \in 1..Len(invocations) : invocations[k] = t
                THEN Invoked(NeverRan, 0, FALSE) ELSE NeverRan]
    /\ faulty \in {{}, RecurringTasks} \cup { {t} : t \in RecurringTasks }
    /\ faults = [t \in AllTasks |-> IF t \in faulty THEN ran[t].count ELSE 0]

NextSched == LoopFire \/ LaterFire \/ AdvanceClock

SpecSched == InitSched /\ [][NextSched]_vars

\* C16: an exception raised by an invocation of a recurring task ends neither
\* that task's looping call nor any other's, nor the process: every
\* registered looping call stays scheduled and has fired once per elapsed
\* interval, also for a task whose every invocation raises (three ticks,
\* three attempts, three exceptions).
C16_FaultsCancelNothing ==
    /\ pc = "running"
    /\ ~exited
    /\ \A t \in timers :
          /\ t \in DOMAIN loop_due
          /\ loop_due[t] = (ran[t].loops + 1) * looping_interval(t)
          /\ ran[t].loops * looping_interval(t) <= now
          /\ now <= loop_due[t]
    /\ \A t \in faulty : faults[t] = ran[t].count

C16_Witness ==
    /\ faulty = {"generate_user_daily_visits"}
    /\ ran["generate_user_daily_visits"].loops = 3
    /\ faults["generate_user_daily_visits"] = 3
    /\ ran["generate_monthly_active_users"].loops = 3
    /\ ~exited

Minutes(n) == n * 60 * 1000

\* the period the design gives each recurring task
Period(t) ==
    CASE t = "generate_user_daily_visits" -> Minutes(5)
      [] t = "reap_monthly_active_users" -> Minutes(60)
      [] t = "generate_monthly_active_users" -> Minutes(5)
      [] t = "phone_stats_home" -> Minutes(180)
      [] t = "reprovision_acme" -> Minutes(24 * 60)

\* the tasks invoked right when they are registered
ImmediateTasks == {"reap_monthly_active_users", "generate_monthly_active_users"}

\* C18 as stated: the first invocation of every recurring task is at its
\* registration when its policy is immediate, else one full interval later.
C18_FirstInvocationAsStated ==
    \A t \in RecurringTasks :
        ran[t].count > 0 =>
            ran[t].first = IF t \in ImmediateTasks THEN 0 ELSE Period(t)

\* C18: the MAU reap and the MAU refresh are first invoked at registration,
\* the daily-visit statistics and the certificate reprovision one full
\* interval after it, and the usage report 5 minutes after it, by a one-shot
\* call beside its 3-hour looping call.  Every looping call fires at the
\* whole multiples of its interval after registration; the MAU reap runs once
\* at startup and then hourly; the MAU refresh has a looping call only with
\* MAU limiting or MAU statistics on, and otherwise runs at startup only.
C18_FirstInvocationPerPolicy ==
    /\ \A t \in RecurringTasks :
          ran[t].count > 0 =>
              ran[t].first = CASE t \in ImmediateTasks -> 0
                               [] t = "phone_stats_home" -> Minutes(5)
                               [] OTHER -> Period(t)
    /\ \A t \in RecurringTasks :
          /\ ran[t].loops > 0 =>
                (t \in timers /\ ran[t].last = ran[t].loops * Period(t))
          /\ t \in timers => ( /\ ran[t].loops * Period(t) <= now
                                /\ now <= (ran[t].loops + 1) * Period(t) )
    /\ \A t \in ImmediateTasks : ran[t].count = 1 + ran[t].loops
    /\ ~config.mau_enabled => ran["generate_monthly_active_users"].count = 1
    /\ ran["phone_stats_home"].count =
          ran["phone_stats_home"].loops
          + (IF config.report_stats
                /\ [task |-> "phone_stats_home", at |-> Minutes(5)] \notin later_due
             THEN 1 ELSE 0)

C18_Witness ==
    /\ config.report_stats
    /\ ran["phone_stats_home"].first = Minutes(5)
    /\ ran["phone_stats_home"].loops = 1
    /\ ran["phone_stats_home"].last = Minutes(180)
    /\ ran["reap_monthly_active_users"].count = 4

\* ----------------------------------------------- phone_stats_home

\* the most invocations of phone_stats_home followed
MaxInvocations == 2
\* the clock is followed for this many half seconds after run(hs) read it
MaxClock == 2
\* the largest count the datastore answers
MaxCount == 1

HalfSecond == 1000 \div 2

\* int(x) for x given in milliseconds: the whole seconds, towards zero
IntOfMs(ms) == IF ms >= 0 THEN ms \div 1000 ELSE -((-ms) \div 1000)

\* now = int(clock.time()); uptime = int(now - start_time), not below 0
uptime_seconds(clock, start) ==
    LET now_s == IntOfMs(clock)
        uptime == IntOfMs(now_s * 1000 - start)
    IN  IF uptime < 0 THEN 0 ELSE uptime

\* faulty variant: a timer of the usage report waits for the invocations
\* still running
phone_stats_timer_serialized == tally.begun < MaxInvocations /\ reports = << >>

\* a timer of the usage report (the one-shot call or the looping call) may
\* fire whatever earlier invocations are doing
phone_stats_timer_fires == tally.begun < MaxInvocations

\* phone_stats_home up to its first yield: the clock is read, timestamp and
\* uptime_seconds are written, count_all_users() is awaited
StartPhoneStats ==
    /\ pc = "running"
    /\ "phone_stats_home" \in timers \cup delayed
    /\ phone_stats_timer_fires
    /\ reports' = Append(reports, [pc |-> "count_all_users", clock |-> clock_ms,
                                   users |-> -1, attempts |-> 0])
    /\ tally' = [tally EXCEPT !.begun = @ + 1]
    /\ stats' = [stats EXCEPT !.timestamp = IntOfMs(clock_ms),
                              !.uptime_seconds = uptime_seconds(clock_ms, start_time)]
    /\ UNCHANGED <<startupVars, composeVars, acmeVars, schedVars, mauVars,
                   clock_ms,
                   start_time, last_submission>>

\* the invocations under way without the i-th, which has returned
Returned(i) == SubSeq(reports, 1, i - 1) \o SubSeq(reports, i + 1, Len(reports))

\* count_all_users() answers and total_users is written, the next datastore
\* call is awaited; or it raises, and the exception leaves phone_stats_home
CountAllUsers ==
    /\ \E i \in 1..Len(reports) :
          /\ reports[i].pc = "count_all_users"
          /\ \E ok \in BOOLEAN, v \in 0..MaxCount :
                IF ok
                THEN /\ stats' = [stats EXCEPT !.total_users = v]
                     /\ reports' = [reports EXCEPT ![i].pc = "later_counts",
                                                   ![i].users = v]
                ELSE /\ reports' = Returned(i)
                     /\ UNCHANGED stats
    /\ UNCHANGED <<startupVars, composeVars, acmeVars, schedVars, mauVars,
                   clock_ms,
                   start_time, tally, last_submission>>

\* the later datastore calls have answered: put_json is called with the
\* stats dict
CallPutJson ==
    /\ \E i \in 1..Len(reports) :
          /\ reports[i].pc = "later_counts"
          /\ reports' = [reports EXCEPT ![i].pc = "put_json", ![i].attempts = @ + 1]
          /\ last_submission' = [made |-> TRUE, payload |-> stats,
                                  clock |-> reports[i].clock,
                                  users |-> reports[i].users]
    /\ tally' = [tally EXCEPT !.submitted = @ + 1]
    /\ UNCHANGED <<startupVars, composeVars, acmeVars, schedVars, mauVars,
                   clock_ms,
                   start_time, stats>>

\* faulty variant: a failed submission is made again
PutJsonFailed_retry(i) ==
    /\ reports' = [reports EXCEPT ![i].attempts = @ + 1]
    /\ tally' = [tally EXCEPT !.submitted = @ + 1, !.warned = @ + 1]

\* except Exception as e: logger.warn(...), and phone_stats_home returns
PutJsonFailed(i) ==
    /\ reports' = Returned(i)
    /\ tally' = [tally EXCEPT !.warned = @ + 1]

\* put_json completes or raises
PutJson ==
    /\ \E i \in 1..Len(reports) :
          /\ reports[i].pc = "put_json"
          /\ reports[i].attempts <= MaxInvocations
          /\ \E ok \in BOOLEAN :
                IF ok
                THEN /\ reports' = Returned(i)
                     /\ UNCHANGED tally
                ELSE PutJsonFailed(i)
    /\ UNCHANGED <<startupVars, composeVars, acmeVars, schedVars, mauVars,
                   clock_ms,
                   start_time, stats, last_submission>>

\* half a second passes (followed while an invocation may still start)
ClockTick ==
    /\ pc = "running"
    /\ tally.begun < MaxInvocations
    /\ clock_ms < start_time + MaxClock * HalfSecond
    /\ clock_ms' = clock_ms + HalfSecond
    /\ UNCHANGED <<startupVars, composeVars, acmeVars, schedVars, mauVars,
                   start_time,
                   stats, reports, tally, last_submission>>

\* the running server with usage reporting on; run(hs) read start_time on a
\* whole second or half a second past one
InitReport ==
    /\ config \in { c \in RunningConfigs :
                        c.report_stats /\ ~c.mau_enabled /\ ~c.acme_enabled }
    /\ cert = NoCert
    /\ Started
    /\ ComposeIdle
    /\ AcmeIdle
    /\ SchedIdle
    /\ start_time \in {0, HalfSecond}
    /\ clock_ms = start_time
    /\ stats = EmptyStats
    /\ reports = << >>
    /\ tally = [begun |-> 0, submitted |-> 0, warned |-> 0]
    /\ last_submission = NoSubmission
    /\ MauIdle

NextReport ==
    StartPhoneStats \/ CountAllUsers \/ CallPutJson \/ PutJson \/ ClockTick

SpecReport == InitReport /\ [][NextReport]_vars

\* C17: invocations of one task are not serialized: a timer of the usage
\* report can start a new invocation in every state, also while earlier
\* invocations are still running, so that two invocations overlap.
C17_InvocationsNotSerialized ==
    (pc = "running" /\ tally.begun < MaxInvocations) => ENABLED StartPhoneStats

C17_Witness ==
    /\ Len(reports) = 2
    /\ reports[1].pc = "later_counts"
    /\ reports[2].pc = "count_all_users"
    /\ reports[1].clock < reports[2].clock

\* C19 as stated: in every submitted payload uptime_seconds is the whole
\* number of seconds from the clock reading of run(hs) to the clock reading
\* at the start of the submitting invocation, and total_users is the value
\* count_all_users() answered during that invocation.
C19_PayloadOfItsInvocation ==
    last_submission.made =>
        /\ last_submission.payload.uptime_seconds =
               (last_submission.clock - start_time) \div 1000
        /\ last_submission.payload.total_users = last_submission.users

\* C20: an invocation of the usage report calls put_json at most once; when
\* the call fails the invocation ends with a warning, the failure goes no
\* further, nothing is submitted again or kept for later, and the process
\* keeps running: there are never more submissions than invocations, and the
\* next submission after a failed one is that of another invocation.
C20_OneSubmissionPerInvocation ==
    /\ pc = "running"
    /\ ~exited
    /\ \A i \in 1..Len(reports) :
          /\ reports[i].attempts <= 1
          /\ reports[i].attempts = 1 <=> reports[i].pc = "put_json"
    /\ tally.warned <= tally.submitted
    /\ tally.submitted + Cardinality({ i \in 1..Len(reports) :
                                          reports[i].attempts = 0 })
          <= tally.begun

C20_Witness ==
    /\ tally = [begun |-> 2, submitted |-> 2, warned |-> 1]
    /\ reports = << >>
    /\ ~exited

\* ------------------------------------- generate_monthly_active_users

\* the most runs of generate_monthly_active_users followed
MaxRefreshes == 3

\* faulty variant: the datastore is asked only under limit_usage_by_mau
mau_lookup_limit_only(cfg) == cfg.limit_usage_by_mau

\* if hs.config.limit_usage_by_mau or hs.config.mau_stats_only
mau_lookup(cfg) == cfg.limit_usage_by_mau \/ cfg.mau_stats_only

\* the three gauge.set calls that end generate_monthly_active_users
SetGauges(current_mau_count, reserved_count) ==
    gauges' = [current |-> current_mau_count, reserved |-> reserved_count,
               max |-> mau_cfg.max_mau_value]

\* one run of generate_monthly_active_users: with the lookup on, the two
\* datastore queries are awaited in turn, and an exception of either leaves
\* the function before a gauge is set
GenerateMonthlyActiveUsers ==
    /\ pc = "running"
    /\ mau_refreshes < MaxRefreshes
    /\ mau_refreshes' = mau_refreshes + 1
    /\ IF mau_lookup(mau_cfg)
       THEN \E answered \in 0..2, c \in 0..MaxCount, r \in 0..MaxCount :
              IF answered = 2
              THEN /\ SetGauges(c, r)
                   /\ mau_last' = [queries |-> 2, current |-> c, reserved |-> r,
                                   outcome |-> "set"]
              ELSE /\ UNCHANGED gauges
                   /\ mau_last' = [queries |-> answered + 1, current |-> 0,
                                   reserved |-> 0, outcome |-> "raised"]
       ELSE /\ SetGauges(0, 0)
            /\ mau_last' = [queries |-> 0, current |-> 0, reserved |-> 0,
                            outcome |-> "set"]
    /\ UNCHANGED <<startupVars, composeVars, acmeVars, schedVars, reportVars,
                   mau_cfg>>

\* the running server; the looping call of the refresh is registered when
\* either switch is on
InitMau ==
    /\ mau_cfg \in [limit_usage_by_mau : BOOLEAN, mau_stats_only : BOOLEAN,
                     max_mau_value : 0..MaxCount]
    /\ config \in { c \in RunningConfigs :
                        /\ c.mau_enabled = mau_lookup(mau_cfg)
                        /\ ~c.report_stats /\ ~c.acme_enabled }
    /\ cert = NoCert
    /\ Started
    /\ ComposeIdle
    /\ AcmeIdle
    /\ SchedIdle
    /\ ReportIdle
    /\ gauges = NoGauges
    /\ mau_refreshes = 0
    /\ mau_last = NoRefresh

NextMau == GenerateMonthlyActiveUsers

SpecMau == InitMau /\ [][NextMau]_vars

\* C21: every run of the MAU refresh that returns sets all three gauges.
\* With neither active-user limiting nor stats-only mode on it asks the
\* datastore nothing and sets current and reserved to 0; with either on it
\* sets them to the two counts the datastore answered; the maximum gauge is
\* set to the configured maximum.  A run only ends without setting the
\* gauges when a datastore query raised, which needs one of the switches on.
C21_GaugesSetByRefresh ==
    /\ mau_last.outcome = "set" =>
          /\ gauges.max = mau_cfg.max_mau_value
          /\ IF ~mau_cfg.limit_usage_by_mau /\ ~mau_cfg.mau_stats_only
             THEN mau_last.queries = 0 /\ gauges.current = 0 /\ gauges.reserved = 0
             ELSE /\ mau_last.queries = 2
                  /\ gauges.current = mau_last.current
                  /\ gauges.reserved = mau_last.reserved
    /\ mau_last.outcome = "raised" =>
          (mau_cfg.limit_usage_by_mau \/ mau_cfg.mau_stats_only)
    /\ mau_refreshes > 0 => mau_last.outcome \in {"set", "raised"}
    /\ (mau_refreshes > 0 /\ ~mau_cfg.limit_usage_by_mau /\ ~mau_cfg.mau_stats_only)
          => mau_last.outcome = "set"

C21_Witness ==
    /\ mau_refreshes = 2
    /\ ~mau_cfg.limit_usage_by_mau
    /\ mau_cfg.mau_stats_only
    /\ mau_cfg.max_mau_value = 1
    /\ gauges = [current |-> 1, reserved |-> 0, max |-> 1]

\* ------------------------------------------- the sockets of the listeners

\* the listeners of a kind among the opened sockets, in the order opened
SocketsOfType(types) ==
    SelectSeq(sockets, LAMBDA i : config.listeners[i].type \in types)

\* start_listening has gone through the whole list and returned
ListenersDone ==
    /\ pc \in {"pusherpool", "background_updates", "running"}
    /\ listen_i > Len(config.listeners)

\* C22 as stated: once start_listening has gone through the list without a
\* fatal error, the list of open sockets the server holds has every socket
\* that was opened, of whatever kind of listener, in the order of the list.
C22_AllSocketsHeldAsStated == ListenersDone => listening_services = sockets

\* C22: the list the server holds (_listening_services) has exactly the
\* sockets of the http listeners, in the order of the list.  The socket of
\* a replication listener is registered on its own for stopListening at
\* shutdown; the sockets of diagnostic-shell and metrics listeners are kept
\* nowhere.
C22_OnlyHttpSocketsHeld ==
    /\ listening_services = SocketsOfType({"http"})
    /\ shutdown_triggers = SocketsOfType({"replication"})
    /\ \A k \in 1..Len(sockets) :
          config.listeners[sockets[k]].type \in {"manhole", "metrics"} =>
              /\ \A j \in 1..Len(listening_services) :
                    listening_services[j] # sockets[k]
              /\ \A j \in 1..Len(shutdown_triggers) :
                    shutdown_triggers[j] # sockets[k]
    /\ \A k \in 1..Len(sockets) : k > 1 => sockets[k - 1] < sockets[k]

C22_Witness ==
    /\ ListenersDone
    /\ Len(config.listeners) = 2
    /\ config.listeners[1].type = "manhole"
    /\ config.listeners[2].type = "http"
    /\ sockets = <<1, 2>>
    /\ listening_services = <<2>>

\* a listener start_listening only warns about
Skipped(listener) ==
    \/ listener.type = "metrics" /\ ~config.enable_metrics
    \/ listener.type \notin {"http", "manhole", "replication", "metrics"}

\* C23: a metrics listener with metrics reporting off, and a listener of an
\* unrecognized kind, open no socket and end nothing: the loop goes on to
\* the next listener, and when start_listening returns the opened sockets
\* are those of the other listeners, each bound, in the order of the list,
\* as they would be without the skipped ones.
C23_SkippedListenersAreInert ==
    /\ \A i \in 1..Len(config.listeners) :
          Skipped(config.listeners[i]) =>
              /\ ~SocketOf(i)
              /\ ~SiteOf(i)
              /\ \A j \in 1..Len(listening_services) : listening_services[j] # i
              /\ \A j \in 1..Len(shutdown_triggers) : shutdown_triggers[j] # i
    /\ (pc = "exited" /\ faultStep = "start_listening" /\ listen_i >= 1
            /\ listen_i <= Len(config.listeners))
          => ~Skipped(config.listeners[listen_i])
    /\ ListenersDone =>
          sockets = SelectSeq([i \in 1..Len(config.listeners) |-> i],
                              LAMBDA i : ~Skipped(config.listeners[i]))

C23_Witness ==
    /\ ListenersDone
    /\ Len(config.listeners) = 2
    /\ config.listeners[1].type = "metrics"
    /\ ~config.enable_metrics
    /\ config.listeners[2].type = "replication"
    /\ sockets = <<2>>
    /\ shutdown_triggers = <<2>>

\* ------------------------------------------ colliding paths of a listener

\* the names _configure_named_resource is called for, over the groups from g
\* on, in the order of the calls
RECURSIVE ConfiguredFrom(_, _)
ConfiguredFrom(groups, g) ==
    IF g > Len(groups) THEN << >>
    ELSE NamesConfigured(groups[g]) \o ConfiguredFrom(groups, g + 1)

\* of the names configured, those registering the federation path
FederationRegistrations ==
    SelectSeq(ConfiguredFrom(compose_listener.resources, 1),
              LAMBDA n : n \in {"federation", "openid"})

\* the handler a name registers on the federation path
FederationHandlerOf(n) ==
    Handler("TransportLayerServer", FALSE,
            IF n = "openid" THEN "openid" ELSE "all")

\* C24: when two (path, handler) pairs of one listener collide on a path, the
\* pair registered last wins and no error is raised: the federation path
\* carries the handler of the last name configured for it, in the order of
\* the groups and of the names in a group; an additional resource replaces
\* the named resource on its path; federation in one group and openid in a
\* later group (which does not name federation itself) leaves the federation
\* path with the openid-restricted handler; and the only error of a
\* composition is the media conflict, never a collision.
C24_LastRegistrationWins ==
    compose_done =>
        /\ compose_tree.err = "ConfigError" =>
              ("media" \in ComposedNames /\ ~compose_cfg.enable_media_repo)
        /\ compose_tree.err = "none" =>
              /\ FederationRegistrations # << >> =>
                    compose_tree.resources[FEDERATION_PREFIX] =
                        FederationHandlerOf(
                            FederationRegistrations[Len(FederationRegistrations)])
              /\ \A p \in compose_listener.additional_resources :
                    compose_tree.resources[p] =
                        Handler("AdditionalResource", FALSE, "all")
              /\ ( /\ Len(compose_listener.resources) = 2
                   /\ NamesHave(compose_listener.resources[1].names, "federation")
                   /\ NamesHave(compose_listener.resources[2].names, "openid")
                   /\ ~NamesHave(compose_listener.resources[2].names, "federation") )
                 => compose_tree.resources[FEDERATION_PREFIX].servlets = "openid"

C24_Witness ==
    /\ compose_done
    /\ compose_tree.err = "none"
    /\ Len(compose_listener.resources) = 2
    /\ compose_listener.resources[1].names = <<"federation">>
    /\ compose_listener.resources[2].names = <<"openid">>
    /\ compose_listener.additional_resources = {STATIC_PREFIX}
    /\ compose_tree.resources[FEDERATION_PREFIX].servlets = "openid"
    /\ SERVER_KEY_V2_PREFIX \in ComposedPaths

\* ------------------------------------- the payload and its invocation

\* C25 as stated: every field of a submitted payload was computed during the
\* invocation that submits it: its timestamp is the clock reading that
\* invocation took when it began, and its total_users is the count answered
\* to that invocation, not one answered to an earlier invocation or to one
\* running at the same time.
C25_NoFieldOfAnotherInvocation ==
    last_submission.made =>
        /\ last_submission.payload.timestamp = IntOfMs(last_submission.clock)
        /\ last_submission.payload.total_users = last_submission.users

\* ------------------------------------------- usage reporting on and off

\* the one-shot calls of the usage report still to come
PhoneStatsLater == { e \in later_due : e.task = "phone_stats_home" }

\* C26: with usage reporting disabled no timer of the usage report is ever
\* registered, neither looping nor one-shot, and the report is never invoked,
\* so nothing is ever submitted; with it enabled the report is not invoked,
\* and so submits nothing, earlier than 5 minutes after the jobs were
\* registered.
C26_NoReportWhenDisabledNorEarly ==
    /\ ~config.report_stats =>
          /\ "phone_stats_home" \notin timers \cup delayed
          /\ "phone_stats_home" \notin DOMAIN loop_due
          /\ PhoneStatsLater = {}
          /\ ran["phone_stats_home"].count = 0
    /\ config.report_stats =>
          /\ now < Minutes(5) => ran["phone_stats_home"].count = 0
          /\ ran["phone_stats_home"].count > 0 =>
                ran["phone_stats_home"].first >= Minutes(5)
          /\ \A e \in PhoneStatsLater : e.at >= Minutes(5)
          /\ loop_due["phone_stats_home"] >= Minutes(5)

C26_Witness ==
    /\ config.report_stats
    /\ now = Minutes(5)
    /\ ran["phone_stats_home"] =
          [count |-> 1, loops |-> 0, first |-> Minutes(5), last |-> Minutes(5)]
    /\ PhoneStatsLater = {}
    /\ ran["reap_monthly_active_users"].count = 1

\* ---------------------------------------- the startup transaction

\* the position at which a step was begun, 0 when it never was
BegunAt(step) ==
    IF InBegun(step) THEN CHOOSE k \in 1..Len(begun) : begun[k] = step ELSE 0

\* the steps inside the with block of setup() before db_conn.commit()
BeforeCommit == <<"prepare_database", "on_new_connection", "run_startup_checks">>

\* C27: db_conn.commit() is issued only after prepare_database, the engine's
\* on_new_connection and run_startup_checks (both of its checks) have all
\* returned without an exception, in that order; and when prepare_database or
\* a check of run_startup_checks fails the process has exited with nothing
\* committed and commit() never issued.
C27_CommitAfterPreparationAndChecks ==
    /\ committed => InBegun("commit")
    /\ InBegun("commit") =>
          /\ BegunAt("commit") > Len(BeforeCommit)
          /\ SubSeq(begun, BegunAt("commit") - Len(BeforeCommit),
                    BegunAt("commit") - 1) = BeforeCommit
          /\ ~(fault # "none" /\ faultStep \in {"prepare_database",
                                                "on_new_connection",
                                                "run_startup_checks"})
    /\ ( /\ fault # "none"
         /\ faultStep \in {"prepare_database", "run_startup_checks"} )
       => ( /\ Fatal
            /\ ~committed
            /\ ~InBegun("commit")
            /\ LastBegun = faultStep )

C27_Witness ==
    /\ committed
    /\ pc = "hs_setup"
    /\ fault = "none"
    /\ LastBegun = "commit"
    /\ SubSeq(begun, Len(begun) - 3, Len(begun) - 1) = BeforeCommit

====
